---- MODULE Spec2Model ----
(***************************************************************************)
(* dasp: Dung argumentation frameworks solved through an ASP engine.       *)
(*                                                                         *)
(* The module holds four state machines over one set of variables; each    *)
(* specification pins the variables of the other machines.                 *)
(*   Spec       lib::argumentation_framework::ArgumentationFramework with  *)
(*              its IterGuard / ExtensionIter (solver control ownership,   *)
(*              patches, enumeration, engine faults)                       *)
(*   SpecLoad   Framework::new over initial files (apx parser)             *)
(*   SpecStore  lib::framework::af::ArgumentationFramework, the framework  *)
(*              the cli binary drives (args / attacks vectors)             *)
(*   SpecGen    af-generator (AF::generate, UpdateLine::generate,          *)
(*              AF::apply_update)                                          *)
(* Files and update lines are modelled at the granularity of statements    *)
(* and patches; the lexers are not modelled.                               *)
(***************************************************************************)
EXTENDS Integers, Sequences, FiniteSets, Bags, TLC

VARIABLES
    clingo_ctl,     \* ArgumentationFramework.clingo_ctl: "Some" or "None"
    ctl,            \* the clingo Control: symbolic atoms and external truth values
    optionals,      \* elements the parser flagged `optional` in the initial file
    guard,          \* the IterGuard / ExtensionIter / solve handle, when one is live
    result,         \* what the last call returned
    panicked,       \* an expect()/unwrap() failed: the thread has unwound
    initial_file,   \* SpecLoad: the text handed to Framework::new
    loaded,         \* SpecLoad: what Framework::new returned
    args,           \* SpecStore: framework::af::ArgumentationFramework.args
    attacks,        \* SpecStore: framework::af::ArgumentationFramework.attacks
    facts,          \* SpecStore: the facts grounded into its clingo Control
    printed,        \* SpecStore: extensions printed by the last enumeration
    store_result,   \* SpecStore: what the last call returned
    gen_args,       \* SpecGen: AF.args, id -> [optional, state]
    gen_atts,       \* SpecGen: AF.atts, (from,to) -> [optional, state]
    updates,        \* SpecGen: the update lines generated so far
    update_nr,      \* SpecGen: loop counter of generate_apply_updates
    intermediates,  \* SpecGen: ARGS.output_intermediates and the numbers
                    \* write_intermediate_file was called with
    revision,       \* SpecRev: the current revision number
    rev_facts,      \* SpecRev: argument(X, r) / attack(X, Y, r) facts asserted
    rev_deletes,    \* SpecRev: delete(.., r) markers asserted
    applied,        \* SpecRev: patches applied since the load
    rev_result,     \* SpecRev: what the last call returned
    semantics,      \* SpecSem: the semantics the framework was created with
    sem_args,       \* SpecSem: the arguments taking part in solving
    sem_atts,       \* SpecSem: the attacks taking part in solving
    sem_result,     \* SpecSem: what the last call returned
    cli_stream,     \* SpecCli: the raw lines of the update file / stdin
    cli_cursor,     \* SpecCli: raw lines read so far
    cli_delivered,  \* SpecCli: lines PathOrStdin::lines has yielded
    cli_out,        \* SpecCli: results printed so far
    cli_exit,       \* SpecCli: "running", or how the task returned
    eq,             \* SpecEq: two values and what comparing them returned
    tgf             \* SpecTgf: the terse parser: lexer, position in the loop, result

lib_vars   == <<clingo_ctl, ctl, optionals, guard, result, panicked>>
load_vars  == <<initial_file, loaded>>
store_vars == <<args, attacks, facts, printed, store_result>>
gen_vars   == <<gen_args, gen_atts, updates, update_nr, intermediates>>
rev_vars   == <<revision, rev_facts, rev_deletes, applied, rev_result>>
sem_vars   == <<semantics, sem_args, sem_atts, sem_result>>
cli_vars   == <<cli_stream, cli_cursor, cli_delivered, cli_out, cli_exit>>
aux_vars   == <<eq, tgf>>
vars       == <<lib_vars, load_vars, store_vars, gen_vars, rev_vars, sem_vars, cli_vars, aux_vars>>

-----------------------------------------------------------------------------
(* Bounds *)

MaxStmts == 3        \* statements in an initial file
MaxPatches == 2      \* patches chained with ':' in one update line
MaxEntries == 3      \* cap on the length of the args / attacks vectors
ArgCount == 2        \* af-generator: --arguments
NrOfUpdates == 2
MaxStream == 3
MaxTokens == 3
MaxTurns == 6       \* SpecCli: raw lines in the update stream
MaxSemAtts == 3      \* SpecSem: attacks in a framework
MaxRevision == 3
MaxAtts == 2     \* af-generator: --updates

Ids == {"a", "b"}
UnknownId == "zz"
AttPairs == {<<"a", "b">>, <<"b", "a">>, <<"a", "a">>}
UnknownPair == <<"zz", "a">>

-----------------------------------------------------------------------------
(* Symbols *)

Argument(id) == [kind |-> "arg", id |-> id]
Attack(from, to) == [kind |-> "att", from |-> from, to |-> to]

Elements == {Argument(x) : x \in Ids} \cup {Attack(p[1], p[2]) : p \in AttPairs}
Targets == Elements \cup {Argument(UnknownId), Attack(UnknownPair[1], UnknownPair[2])}

RECURSIVE SeqsUpTo(_, _)
SeqsUpTo(S, n) ==
    IF n = 0 THEN {<<>>}
    ELSE LET shorter == SeqsUpTo(S, n - 1)
         IN  shorter \cup {Append(s, x) : s \in {t \in shorter : Len(t) = n - 1}, x \in S}

Range(s) == {s[i] : i \in DOMAIN s}

-----------------------------------------------------------------------------
(* Initial files in the explicit format, one record per statement:         *)
(*   arg(x).   att(x,y).   opt(arg(x)). / opt(att(x,y)).   and a statement *)
(*   that starts with a token that is none of arg / att / opt.             *)

Statements ==
    {[stmt |-> "arg", sym |-> Argument(x)] : x \in Ids}
    \cup {[stmt |-> "att", sym |-> Attack(p[1], p[2])] : p \in AttPairs}
    \cup {[stmt |-> "opt", sym |-> e] : e \in Elements}
    \cup {[stmt |-> "junk", sym |-> Argument(UnknownId)]}

Files == SeqsUpTo(Statements, MaxStmts)

ParserOk(a, t) == [ok |-> TRUE, err |-> "none", args |-> a, attacks |-> t]
ParserErr(e) == [ok |-> FALSE, err |-> e, args |-> <<>>, attacks |-> <<>>]

(* The loop of parse_file: every arg / att statement is pushed, in order. *)
pushed(input, what) ==
    LET sel == SelectSeq(input, LAMBDA st : st.stmt = what)
    IN  [i \in DOMAIN sel |-> [sym |-> sel[i].sym, optional |-> FALSE]]

(* iter_mut().find(..): the first entry with that id (pair) gets the flag. *)
mark_optional(entries, sym) ==
    LET hits == {i \in DOMAIN entries : entries[i].sym = sym}
        first == CHOOSE i \in hits : \A j \in hits : i <= j
    IN  [entries EXCEPT ![first].optional = TRUE]

RECURSIVE apply_optionals(_, _, _)
apply_optionals(a, t, opts) ==
    IF opts = <<>> THEN ParserOk(a, t)
    ELSE LET sym == Head(opts).sym IN
         IF sym.kind = "arg"
         THEN IF \E i \in DOMAIN a : a[i].sym = sym
              THEN apply_optionals(mark_optional(a, sym), t, Tail(opts))
              ELSE ParserErr("OptionalArgumentNotFound")
         ELSE IF \E i \in DOMAIN t : t[i].sym = sym
              THEN apply_optionals(a, mark_optional(t, sym), Tail(opts))
              ELSE ParserErr("OptionalAttackNotFound")

apx_parse_file(input) ==
    IF \E i \in DOMAIN input : input[i].stmt = "junk"
    THEN ParserErr("UnexpectedToken")
    ELSE apply_optionals(pushed(input, "arg"), pushed(input, "att"),
                         SelectSeq(input, LAMBDA st : st.stmt = "opt"))

(* The terse parser, reached only with text the explicit parser rejected:   *)
(* such text is not empty and has '(' or ')' where an id, ' ' or '#' is    *)
(* expected.                                                               *)
tgf_parse_file(input) == ParserErr("UnexpectedToken")

parse_apx_tgf(input) ==
    LET apx == apx_parse_file(input)
    IN  IF apx.ok THEN apx ELSE tgf_parse_file(input)

-----------------------------------------------------------------------------
(* The clingo Control as the framework uses it: the symbolic atoms of the  *)
(* grounded program and the truth value assigned to each external.         *)

NoControl == [atoms |-> {}, truth |-> {}]

(* FactBase::insert of every argument and attack: a set of symbols. *)
create_factbase_from_args_and_attacks(a, t) ==
    {a[i].sym : i \in DOMAIN a} \cup {t[i].sym : i \in DOMAIN t}

(* "We start with all arguments and attacks enabled". *)
enable_all_external_args_and_attacks(c) == [c EXCEPT !.truth = c.atoms]

initialize_backend(a, t) ==
    enable_all_external_args_and_attacks(
        [atoms |-> create_factbase_from_args_and_attacks(a, t), truth |-> {}])

(* Framework::new *)
new(input) ==
    LET parsed == parse_apx_tgf(input)
    IN  IF ~parsed.ok
        THEN [ok |-> FALSE, err |-> parsed.err, ctl |-> NoControl, optionals |-> {}]
        ELSE [ok |-> TRUE, err |-> "none",
              ctl |-> initialize_backend(parsed.args, parsed.attacks),
              optionals |-> {parsed.args[i].sym : i \in {j \in DOMAIN parsed.args : parsed.args[j].optional}}
                      \cup {parsed.attacks[i].sym : i \in {j \in DOMAIN parsed.attacks : parsed.attacks[j].optional}}]

(* An element takes part in solving when its atom exists and is true. *)
Alive(c) == c.atoms \cap c.truth
AliveArgs(c) == {e.id : e \in {x \in Alive(c) : x.kind = "arg"}}
AliveAttacks(c) == {<<e.from, e.to>> : e \in {x \in Alive(c) : x.kind = "att"}}

-----------------------------------------------------------------------------
(* Admissible (the THEORY program): guess S within the arguments, S is     *)
(* conflict-free, and no member of S is attacked by an undefeated attacker.*)

defeated_none(S, atts) == {}

defeated(S, atts) == {p[2] : p \in {q \in atts : q[1] \in S}}

not_defended_any(S, atts) == {p[2] : p \in atts}

not_defended(S, atts) == {p[2] : p \in {q \in atts : q[1] \notin defeated(S, atts)}}

Extensions_without_empty(arguments, atts) ==
    {S \in SUBSET arguments \ {{}} :
        /\ \A p \in atts : ~(p[1] \in S /\ p[2] \in S)
        /\ S \cap not_defended(S, atts) = {}}

Extensions(arguments, atts) ==
    {S \in SUBSET arguments :
        /\ \A p \in atts : ~(p[1] \in S /\ p[2] \in S)
        /\ S \cap not_defended(S, atts) = {}}

(* the guess of the theory with out left open: in(X) and out(X) may both   *)
(* be missing                                                              *)
guess_out_left_open(arguments) ==
    UNION {{[in |-> S, out |-> O] : O \in SUBSET (arguments \ S)} : S \in SUBSET arguments}

(* in(X) :- not out(X), argument(X).  out(X) :- not in(X), argument(X).    *)
guess(arguments) ==
    {[in |-> S, out |-> arguments \ S] : S \in SUBSET arguments}

(* the answer sets the solve handle goes through *)
AnswerSets(arguments, atts) ==
    {m \in guess(arguments) :
        /\ \A p \in atts : ~(p[1] \in m.in /\ p[2] \in m.in)
        /\ m.in \cap not_defended(m.in, atts) = {}}

(* `#show. #show X : in(X).` and Extension::from_model on the shown terms *)
shown(m) == m.in

-----------------------------------------------------------------------------
(* Update lines in the explicit format: a sign, patches chained with ':',  *)
(* and the closing '.'.                                                    *)

Lines ==
    [sign : {"+", "-"},
     items : SeqsUpTo(Targets, MaxPatches) \ {<<>>},
     period : BOOLEAN]

(* AddDel::arg / AddDel::att *)
AddDel(sign, sym) ==
    [op |-> IF sign = "+"
            THEN (IF sym.kind = "arg" THEN "EnableArgument" ELSE "EnableAttack")
            ELSE (IF sym.kind = "arg" THEN "DisableArgument" ELSE "DisableAttack"),
     sym |-> sym]

(* apxm::parse_line, with tgfm::parse_line as the fallback: text of the    *)
(* explicit format that lacks its '.' is rejected by both.                 *)
parse_apxm_tgfm_patch_line(line) ==
    IF line.period
    THEN [ok |-> TRUE, patches |-> [i \in DOMAIN line.items |-> AddDel(line.sign, line.items[i])]]
    ELSE [ok |-> FALSE, patches |-> <<>>]

(* clingo::enable_argument / enable_attack (ctl, literal) *)
clingo_enable(c, sym) == [c EXCEPT !.truth = @ \cup {sym}]

(* clingo::disable_argument / disable_attack (ctl, literal) *)
clingo_disable(c, sym) == [c EXCEPT !.truth = @ \ {sym}]

(* try_find over ctl.symbolic_atoms(): is there an atom with this symbol *)
try_find(c, sym) == sym \in c.atoms

apply_patch_enable_ignored(held, c, patch) ==
    IF held = "None" THEN [err |-> "ClingoNotInitialized", ctl |-> c]
    ELSE IF ~try_find(c, patch.sym) THEN [err |-> "Logic", ctl |-> c]
    ELSE IF patch.op \in {"EnableArgument", "EnableAttack"}
         THEN [err |-> "none", ctl |-> c]
         ELSE [err |-> "none", ctl |-> clingo_disable(c, patch.sym)]

(* ArgumentationFramework::apply_patch and the four enable_* / disable_*   *)
(* methods: assume_control, look the symbol up, assign the external.       *)
apply_patch(held, c, patch) ==
    IF held = "None" THEN [err |-> "ClingoNotInitialized", ctl |-> c]
    ELSE IF ~try_find(c, patch.sym) THEN [err |-> "Logic", ctl |-> c]
    ELSE IF patch.op \in {"EnableArgument", "EnableAttack"}
         THEN [err |-> "none", ctl |-> clingo_enable(c, patch.sym)]
         ELSE [err |-> "none", ctl |-> clingo_disable(c, patch.sym)]

(* fallible_iterator for_each: patches in order, stopping at the first Err *)
RECURSIVE for_each_patch(_, _, _)
for_each_patch(held, c, patches) ==
    IF patches = <<>> THEN [err |-> "none", ctl |-> c]
    ELSE LET r == apply_patch(held, c, Head(patches))
         IN  IF r.err # "none" THEN r ELSE for_each_patch(held, r.ctl, Tail(patches))

(* Framework::update *)
update(held, c, line) ==
    LET parsed == parse_apxm_tgfm_patch_line(line)
    IN  IF ~parsed.ok THEN [err |-> "Parser", ctl |-> c]
        ELSE for_each_patch(held, c, parsed.patches)

-----------------------------------------------------------------------------
(* Spec: the library framework                                             *)

NoGuard == [live |-> FALSE, models |-> {}, faulted |-> FALSE, yielded |-> EmptyBag]
NoLine == [sign |-> "", items |-> <<>>, period |-> FALSE]
Res(op, val, ext) == [op |-> op, val |-> val, ext |-> ext, line |-> NoLine]
UpdateRes(val, line) == [op |-> "update", val |-> val, ext |-> {}, line |-> line]
NotLoaded == [called |-> FALSE, ok |-> FALSE, err |-> "none", ctl |-> NoControl]
NoUpdates == [count |-> 0, last |-> [kind |-> "none", sym |-> Argument(0), attacks |-> {}]]

LoadIdle == initial_file = <<>> /\ loaded = NotLoaded
StoreIdle ==
    /\ args = <<>> /\ attacks = <<>> /\ facts = {} /\ printed = {}
    /\ store_result = Res("none", "Ok", {})
NoIntermediates == [on |-> FALSE, written |-> {}]
GenIdle ==
    /\ gen_args = <<>> /\ gen_atts = <<>> /\ updates = NoUpdates /\ update_nr = 0
    /\ intermediates = NoIntermediates
RevRes(op, val, exts) == [op |-> op, val |-> val, exts |-> exts]
RevIdle ==
    /\ revision = 0 /\ rev_facts = {} /\ rev_deletes = {} /\ applied = 0
    /\ rev_result = RevRes("none", "Ok", {})
SemRes(op, val) == [op |-> op, val |-> val, arg |-> "", calls |-> 0, seen |-> <<>>, exts |-> {}]
SemIdle ==
    /\ semantics = "none" /\ sem_args = {} /\ sem_atts = {}
    /\ sem_result = SemRes("none", "Ok")
NoEq == [op |-> "none", of |-> "none", a |-> 0, b |-> 0, atoms |-> {}, val |-> FALSE]
NoTgf == [input |-> <<>>, pos |-> 0, at |-> "none", args |-> 0, attacks |-> 0, turns |-> 0]
AuxIdle == eq = NoEq /\ tgf = NoTgf
CliIdle ==
    /\ cli_stream = <<>> /\ cli_cursor = 0 /\ cli_delivered = <<>>
    /\ cli_out = 0 /\ cli_exit = "none"
LibIdle ==
    /\ clingo_ctl = "None" /\ ctl = NoControl /\ optionals = {}
    /\ guard = NoGuard /\ result = Res("none", "Ok", {}) /\ panicked = FALSE

Init ==
    /\ \E f \in Files :
          /\ new(f).ok
          /\ ctl = new(f).ctl
          /\ optionals = new(f).optionals
    /\ clingo_ctl = "Some"
    /\ guard = NoGuard
    /\ result = Res("new", "Ok", {})
    /\ panicked = FALSE
    /\ LoadIdle /\ StoreIdle /\ GenIdle /\ RevIdle /\ SemIdle /\ CliIdle /\ AuxIdle

(* af.update(line): the guard borrows the framework, so none is live *)
Update ==
    /\ ~panicked /\ ~guard.live
    /\ \E line \in Lines :
          LET r == update(clingo_ctl, ctl, line)
          IN  /\ ctl' = r.ctl
              /\ result' = UpdateRes(IF r.err = "none" THEN "Ok" ELSE r.err, line)
    /\ UNCHANGED <<clingo_ctl, optionals, guard, panicked>>
    /\ UNCHANGED <<load_vars, store_vars, gen_vars, rev_vars, sem_vars, cli_vars, aux_vars>>

(* af.enumerate_extensions(): take() the control, expect() it, solve *)
EnumeratePanics ==
    /\ ~panicked /\ ~guard.live /\ clingo_ctl = "None"
    /\ panicked' = TRUE
    /\ result' = Res("enumerate_extensions", "panic", {})
    /\ UNCHANGED <<clingo_ctl, ctl, optionals, guard>>
    /\ UNCHANGED <<load_vars, store_vars, gen_vars, rev_vars, sem_vars, cli_vars, aux_vars>>

EnumerateSolves ==
    /\ ~panicked /\ ~guard.live /\ clingo_ctl = "Some"
    /\ clingo_ctl' = "None"
    /\ guard' = [live |-> TRUE, models |-> AnswerSets(AliveArgs(ctl), AliveAttacks(ctl)),
                 faulted |-> FALSE, yielded |-> EmptyBag]
    /\ result' = Res("enumerate_extensions", "Ok", {})
    /\ UNCHANGED <<ctl, optionals, panicked>>
    /\ UNCHANGED <<load_vars, store_vars, gen_vars, rev_vars, sem_vars, cli_vars, aux_vars>>

(* ctl.solve(..)? fails: the control was moved into solve and is gone *)
EnumerateSolveFails ==
    /\ ~panicked /\ ~guard.live /\ clingo_ctl = "Some"
    /\ clingo_ctl' = "None"
    /\ ctl' = NoControl
    /\ result' = Res("enumerate_extensions", "ClingoError", {})
    /\ UNCHANGED <<optionals, guard, panicked>>
    /\ UNCHANGED <<load_vars, store_vars, gen_vars, rev_vars, sem_vars, cli_vars, aux_vars>>

(* ExtensionIter::next: resume, then the model if there is one *)
NextYields ==
    /\ ~panicked /\ guard.live
    /\ \E m \in guard.models :
          /\ guard' = [guard EXCEPT !.models = @ \ {m},
                                    !.yielded = @ (+) SetToBag({shown(m)})]
          /\ result' = Res("next", "Some", shown(m))
    /\ UNCHANGED <<clingo_ctl, ctl, optionals, panicked>>
    /\ UNCHANGED <<load_vars, store_vars, gen_vars, rev_vars, sem_vars, cli_vars, aux_vars>>

NextExhausted ==
    /\ ~panicked /\ guard.live /\ guard.models = {}
    /\ result' = Res("next", "None", {})
    /\ UNCHANGED <<clingo_ctl, ctl, optionals, guard, panicked>>
    /\ UNCHANGED <<load_vars, store_vars, gen_vars, rev_vars, sem_vars, cli_vars, aux_vars>>

(* handle.resume() or handle.model() reports an engine fault *)
NextFails ==
    /\ ~panicked /\ guard.live
    /\ guard' = [guard EXCEPT !.faulted = TRUE]
    /\ result' = Res("next", "ClingoError", {})
    /\ UNCHANGED <<clingo_ctl, ctl, optionals, panicked>>
    /\ UNCHANGED <<load_vars, store_vars, gen_vars, rev_vars, sem_vars, cli_vars, aux_vars>>

(* IterGuard::drop -> drop_extension_iter: handle.close() gives the        *)
(* control back                                                            *)
DropCloses ==
    /\ ~panicked /\ guard.live
    /\ clingo_ctl' = "Some"
    /\ guard' = NoGuard
    /\ result' = Res("drop", "Ok", {})
    /\ UNCHANGED <<ctl, optionals, panicked>>
    /\ UNCHANGED <<load_vars, store_vars, gen_vars, rev_vars, sem_vars, cli_vars, aux_vars>>

(* handle.close()? fails: drop_extension_iter returns early, drop()        *)
(* discards the Err with .ok()                                             *)
DropCloseFails ==
    /\ ~panicked /\ guard.live
    /\ clingo_ctl' = "None"
    /\ ctl' = NoControl
    /\ guard' = NoGuard
    /\ result' = Res("drop", "Ok", {})
    /\ UNCHANGED <<optionals, panicked>>
    /\ UNCHANGED <<load_vars, store_vars, gen_vars, rev_vars, sem_vars, cli_vars, aux_vars>>

(* Control::assign_external(literal, value) *)
assign_external(c, sym, value) ==
    IF value = "True" THEN [c EXCEPT !.truth = @ \cup {sym}]
    ELSE [c EXCEPT !.truth = @ \ {sym}]

(* clingo.rs disable_external_argument_symbol: find the external of the    *)
(* argument, assign it, or warn when there is none; Ok(()) either way      *)
disable_external_argument_symbol(c, sym) ==
    IF try_find(c, sym) THEN assign_external(c, sym, "True") ELSE c

(* clingo.rs disable_external_attack_symbol *)
disable_external_attack_symbol(c, sym) ==
    IF try_find(c, sym) THEN assign_external(c, sym, "True") ELSE c

DisableLine(sym) == [sign |-> "-", items |-> <<sym>>, period |-> TRUE]

(* clingo.rs add_argument_to_facts_and_enable_external_symbol and          *)
(* add_attack_to_facts_and_enable_external_symbol: add the fact, ground,   *)
(* assign the external                                                     *)
add_to_facts_and_enable_external_symbol(c, sym) ==
    assign_external([c EXCEPT !.atoms = @ \cup {sym}], sym, "True")

disable_external_symbol(c, sym) ==
    IF sym.kind = "arg" THEN disable_external_argument_symbol(c, sym)
    ELSE disable_external_attack_symbol(c, sym)

EnableLine(sym) == [sign |-> "+", items |-> <<sym>>, period |-> TRUE]

(* a Disable patch carried out by disable_external_argument_symbol *)
DisableExternalArgumentSymbol ==
    /\ ~panicked /\ ~guard.live /\ clingo_ctl = "Some"
    /\ \E sym \in {t \in Targets : t.kind = "arg"} :
          /\ ctl' = disable_external_argument_symbol(ctl, sym)
          /\ result' = [op |-> "disable_external_argument_symbol", val |-> "Ok",
                        ext |-> {}, line |-> DisableLine(sym)]
    /\ UNCHANGED <<clingo_ctl, optionals, guard, panicked>>
    /\ UNCHANGED <<load_vars, store_vars, gen_vars, rev_vars, sem_vars, cli_vars, aux_vars>>

(* a Disable patch carried out by disable_external_attack_symbol *)
DisableExternalAttackSymbol ==
    /\ ~panicked /\ ~guard.live /\ clingo_ctl = "Some"
    /\ \E sym \in {t \in Targets : t.kind = "att"} :
          /\ ctl' = disable_external_attack_symbol(ctl, sym)
          /\ result' = [op |-> "disable_external_attack_symbol", val |-> "Ok",
                        ext |-> {}, line |-> DisableLine(sym)]
    /\ UNCHANGED <<clingo_ctl, optionals, guard, panicked>>
    /\ UNCHANGED <<load_vars, store_vars, gen_vars, rev_vars, sem_vars, cli_vars, aux_vars>>

(* FallibleIterator::count: next() until it reports None, one per item *)
RECURSIVE count(_)
count(models) ==
    IF models = {} THEN 0
    ELSE 1 + count(models \ {CHOOSE m \in models : TRUE})

CountRes(val, n) ==
    [op |-> "count_extensions", val |-> val, ext |-> {}, line |-> NoLine, count |-> n]

(* Framework::count_extensions: enumerate_extensions()?, count() through   *)
(* the guard, and the guard dropped when the statement ends                *)
CountExtensions ==
    /\ ~panicked /\ ~guard.live
    /\ \/ /\ clingo_ctl = "None"
          /\ panicked' = TRUE
          /\ result' = CountRes("panic", 0)
          /\ UNCHANGED <<clingo_ctl, ctl>>
       \/ /\ clingo_ctl = "Some"
          /\ clingo_ctl' = "None"
          /\ ctl' = NoControl
          /\ result' = CountRes("ClingoError", 0)
          /\ UNCHANGED panicked
       \/ /\ clingo_ctl = "Some"
          /\ \E fault \in BOOLEAN :
                result' = IF fault THEN CountRes("ClingoError", 0)
                          ELSE CountRes("Ok", count(AnswerSets(AliveArgs(ctl), AliveAttacks(ctl))))
          /\ \E closes \in BOOLEAN :
                /\ clingo_ctl' = IF closes THEN "Some" ELSE "None"
                /\ ctl' = IF closes THEN ctl ELSE NoControl
          /\ UNCHANGED panicked
    /\ UNCHANGED <<optionals, guard>>
    /\ UNCHANGED <<load_vars, store_vars, gen_vars, rev_vars, sem_vars, cli_vars, aux_vars>>

SampleRes(val, ext, calls) ==
    [op |-> "sample_extension", val |-> val, ext |-> ext, line |-> NoLine, calls |-> calls]

(* Framework::sample_extension: enumerate_extensions()?, one next() on     *)
(* the guard, and the guard dropped when the statement ends                *)
SampleExtension ==
    /\ ~panicked /\ ~guard.live
    /\ \/ /\ clingo_ctl = "None"
          /\ panicked' = TRUE
          /\ result' = SampleRes("panic", {}, 0)
          /\ UNCHANGED <<clingo_ctl, ctl>>
       \/ /\ clingo_ctl = "Some"
          /\ clingo_ctl' = "None"
          /\ ctl' = NoControl
          /\ result' = SampleRes("ClingoError", {}, 0)
          /\ UNCHANGED panicked
       \/ /\ clingo_ctl = "Some"
          /\ LET models == AnswerSets(AliveArgs(ctl), AliveAttacks(ctl))
             IN  \/ result' = SampleRes("ClingoError", {}, 1)
                 \/ /\ models = {}
                    /\ result' = SampleRes("None", {}, 1)
                 \/ \E m \in models : result' = SampleRes("Some", shown(m), 1)
          /\ \E closes \in BOOLEAN :
                /\ clingo_ctl' = IF closes THEN "Some" ELSE "None"
                /\ ctl' = IF closes THEN ctl ELSE NoControl
          /\ UNCHANGED panicked
    /\ UNCHANGED <<optionals, guard>>
    /\ UNCHANGED <<load_vars, store_vars, gen_vars, rev_vars, sem_vars, cli_vars, aux_vars>>

Next ==
    \/ Update
    \/ CountExtensions
    \/ SampleExtension
    \/ DisableExternalArgumentSymbol
    \/ DisableExternalAttackSymbol
    \/ EnumeratePanics
    \/ EnumerateSolves
    \/ EnumerateSolveFails
    \/ NextYields
    \/ NextExhausted
    \/ NextFails
    \/ DropCloses
    \/ DropCloseFails

Spec == Init /\ [][Next]_vars

-----------------------------------------------------------------------------
(* Claims about the library framework                                      *)

(* C1: whenever a guard goes away, however it was used (drained, dropped   *)
(* after one next, dropped without any next, dropped after next reported   *)
(* an error), the framework holds its control again (clingo_ctl is Some),  *)
(* so that a following enumerate_extensions starts a new enumeration.      *)
C1_DroppedGuardReturnsControl ==
    [][(guard.live /\ ~guard'.live) => clingo_ctl' = "Some"]_vars

(* C3: when update(line) returns the error of an unknown element or of an  *)
(* illegal transition, the framework is as it was before the call, also    *)
(* when the failing patch is not the first patch of a ':'-chained line.    *)
C3_FailedUpdateChangesNothing ==
    [][(result'.op = "update" /\ result'.val = "Logic") => ctl' = ctl]_vars

(* C5: a Disable patch whose target was loaded as a non-optional argument  *)
(* or attack fails with an error, and the target stays Alive.              *)
C5_DisableNonOptionalFails ==
    [][(/\ result'.op = "update"
        /\ clingo_ctl = "Some"
        /\ result'.line.period
        /\ result'.line.sign = "-"
        /\ Len(result'.line.items) = 1
        /\ result'.line.items[1] \in ctl.atoms \ optionals)
       => (/\ result'.val = "Logic"
           /\ result'.line.items[1] \in Alive(ctl'))]_vars

(* C7: right after a load every element declared optional is Dead and      *)
(* every other element is Alive, so the first enumeration is that of the   *)
(* framework made of the non-optional elements only.                       *)
C7_OptionalStartsDead ==
    result.op = "new" =>
        /\ optionals \cap Alive(ctl) = {}
        /\ ctl.atoms \ optionals \subseteq Alive(ctl)
        /\ Extensions(AliveArgs(ctl), AliveAttacks(ctl))
             = Extensions({e.id : e \in {x \in ctl.atoms \ optionals : x.kind = "arg"}},
                          {<<e.from, e.to>> : e \in {x \in ctl.atoms \ optionals : x.kind = "att"}})

(* a Disable patch on one element has just returned Ok *)
Disabled(r, kind) ==
    /\ r.op \in {"update", "disable_external_argument_symbol", "disable_external_attack_symbol"}
    /\ r.val = "Ok"
    /\ r.line.period
    /\ r.line.sign = "-"
    /\ Len(r.line.items) = 1
    /\ r.line.items[1].kind = kind

(* C13: after a successful DisableArgument(x) on an optional Alive          *)
(* argument x, no extension an enumeration returns contains x (as long as  *)
(* x has not been enabled again).                                          *)
C13_DisabledArgumentInNoExtension ==
    [][(/\ Disabled(result', "arg")
        /\ clingo_ctl = "Some"
        /\ result'.line.items[1] \in optionals \cap Alive(ctl))
       => \A S \in Extensions(AliveArgs(ctl'), AliveAttacks(ctl')) :
             result'.line.items[1].id \notin S]_vars

(* C14: after a successful DisableAttack(a,b) on an optional Alive attack   *)
(* the attack imposes no conflict and no defence obligation: the           *)
(* extensions are those of the same framework without that attack.         *)
C14_DisabledAttackHasNoEffect ==
    [][(/\ Disabled(result', "att")
        /\ clingo_ctl = "Some"
        /\ result'.line.items[1] \in optionals \cap Alive(ctl))
       => Extensions(AliveArgs(ctl'), AliveAttacks(ctl'))
            = Extensions(AliveArgs(ctl),
                         AliveAttacks(ctl) \ {<<result'.line.items[1].from,
                                                 result'.line.items[1].to>>})]_vars

ExtensionsOf(c) == Extensions(AliveArgs(c), AliveAttacks(c))

(* the framework after `-x.` and then `+x.`, each through Framework::update *)
disable_then_enable(c, x) ==
    update("Some", update("Some", c, DisableLine(x)).ctl, EnableLine(x))

C18_FinishedIteratorStaysFinished ==
    [][(/\ guard.live
        /\ result.op = "next" /\ result.val \in {"None", "ClingoError"}
        /\ guard'.live
        /\ result'.op = "next")
       => result'.val = "None"]_vars

(* C20: count_extensions returns the number of extensions an enumeration   *)
(* of the current framework yields, and when it returns the solver handle  *)
(* is back with the framework.                                             *)
C20_CountReturnsHandle ==
    [][(/\ ~guard.live /\ clingo_ctl = "Some"
        /\ result'.op = "count_extensions")
       => /\ clingo_ctl' = "Some"
          /\ result'.val = "Ok" => result'.count = Cardinality(ExtensionsOf(ctl))]_vars

(* C32: an enumeration or a patch attempted while the framework does not   *)
(* hold its control returns the not-initialized error as a value; nothing  *)
(* panics in that state.                                                   *)
C32_NoControlIsAReturnedError ==
    [][(/\ ~guard.live /\ ~panicked /\ clingo_ctl = "None"
        /\ \/ result'.op = "enumerate_extensions"
           \/ /\ result'.op = "update"
              /\ parse_apxm_tgfm_patch_line(result'.line).ok
              /\ parse_apxm_tgfm_patch_line(result'.line).patches # <<>>)
       => (~panicked' /\ result'.val = "ClingoNotInitialized")]_vars

(* C35: at every point the control is held either by the framework        *)
(* (clingo_ctl is Some, no guard live) or by the one live guard            *)
(* (clingo_ctl is None), never by both and never by neither, also after a  *)
(* solve that failed to start and after a close that failed.               *)
C35_ControlHeldExactlyOnce ==
    \/ clingo_ctl = "Some" /\ ~guard.live
    \/ clingo_ctl = "None" /\ guard.live

(* C21: sample_extension calls next() once and returns the extension it   *)
(* got, or none when the framework has no extension; afterwards the        *)
(* framework holds its solver again, ready for an update or enumeration.   *)
C21_SampleLeavesFrameworkUsable ==
    [][(/\ ~guard.live /\ clingo_ctl = "Some"
        /\ result'.op = "sample_extension")
       => /\ clingo_ctl' = "Some"
          /\ result'.calls = 1
          /\ result'.val = "Some" => result'.ext \in ExtensionsOf(ctl)
          /\ result'.val = "None" => ExtensionsOf(ctl) = {}]_vars

-----------------------------------------------------------------------------
(* SpecPatch: update lines that carry one patch each                       *)

PatchLines == {DisableLine(x) : x \in Targets} \cup {EnableLine(x) : x \in Targets}

UpdateOnePatch ==
    /\ ~panicked /\ ~guard.live
    /\ \E line \in PatchLines :
          LET r == update(clingo_ctl, ctl, line)
          IN  /\ ctl' = r.ctl
              /\ result' = UpdateRes(IF r.err = "none" THEN "Ok" ELSE r.err, line)
    /\ UNCHANGED <<clingo_ctl, optionals, guard, panicked>>
    /\ UNCHANGED <<load_vars, store_vars, gen_vars, rev_vars, sem_vars, cli_vars, aux_vars>>

NextPatch == UpdateOnePatch

SpecPatch == Init /\ [][NextPatch]_vars

-----------------------------------------------------------------------------
(* SpecEnum: enumerations over the framework as loaded                     *)

NextEnum ==
    \/ EnumeratePanics
    \/ EnumerateSolves
    \/ EnumerateSolveFails
    \/ NextYields
    \/ NextExhausted
    \/ NextFails
    \/ DropCloses
    \/ DropCloseFails

SpecEnum == Init /\ [][NextEnum]_vars

(* C19: within one enumeration no extension is yielded more than once:     *)
(* the number of items yielded equals the number of distinct extensions    *)
(* among them.                                                             *)
C19_NoExtensionYieldedTwice ==
    guard.live => BagCardinality(guard.yielded) = Cardinality(BagToSet(guard.yielded))

(* an enumeration was drained and yielded several extensions *)
C19_Witness ==
    /\ guard.live /\ guard.models = {}
    /\ result.op = "next" /\ result.val = "None"
    /\ BagCardinality(guard.yielded) >= 3

-----------------------------------------------------------------------------
(* SpecLoad: ArgumentationFramework::new on any input text                 *)

InitLoad ==
    /\ initial_file \in Files
    /\ loaded = NotLoaded
    /\ LibIdle /\ StoreIdle /\ GenIdle /\ RevIdle /\ SemIdle /\ CliIdle /\ AuxIdle

New ==
    /\ ~loaded.called
    /\ loaded' = [called |-> TRUE, ok |-> new(initial_file).ok,
                  err |-> new(initial_file).err, ctl |-> new(initial_file).ctl]
    /\ UNCHANGED <<initial_file, lib_vars, store_vars, gen_vars, rev_vars, sem_vars, cli_vars, aux_vars>>

NextLoad == New

SpecLoad == InitLoad /\ [][NextLoad]_vars

(* the text declares some argument id or some attack pair more than once *)
HasDuplicate(input) ==
    \E i, j \in DOMAIN input :
        /\ i < j
        /\ input[i].stmt \in {"arg", "att"}
        /\ input[i] = input[j]

(* C10: loading a text that declares the same argument id twice, or the    *)
(* same attack pair twice, fails with a malformed-input error and creates  *)
(* no framework.                                                           *)
C10_DuplicateLoadFails ==
    (loaded.called /\ HasDuplicate(initial_file)) =>
        (~loaded.ok /\ loaded.err # "none" /\ loaded.ctl = NoControl)

-----------------------------------------------------------------------------
(* SpecStore: the framework that keeps args and attacks as vectors         *)

StoreTargets == {Argument("a"), Argument("b"), Attack("a", "b")}

StoreStatements ==
    {[stmt |-> e.kind, sym |-> e] : e \in StoreTargets}
        \cup {[stmt |-> "opt", sym |-> Argument("a")]}

StoreFiles == SeqsUpTo(StoreStatements, MaxStmts)

StoreLines ==
    [sign : {"+", "-"},
     items : SeqsUpTo(StoreTargets, MaxPatches),
     period : BOOLEAN]

(* af::parser::apx::parse_file: arg(..) and att(..) statements in order;   *)
(* any other token is an UnexpectedToken                                   *)
af_parse_file(input) ==
    IF \E i \in DOMAIN input : input[i].stmt \notin {"arg", "att"}
    THEN [ok |-> FALSE, args |-> <<>>, attacks |-> <<>>]
    ELSE LET a == SelectSeq(input, LAMBDA st : st.stmt = "arg")
             t == SelectSeq(input, LAMBDA st : st.stmt = "att")
         IN  [ok |-> TRUE,
              args |-> [i \in DOMAIN a |-> a[i].sym],
              attacks |-> [i \in DOMAIN t |-> t[i].sym]]

(* tgfm::AddDel::arg / att *)
af_AddDel(sign, sym) ==
    [op |-> IF sign = "+"
            THEN (IF sym.kind = "arg" THEN "AddArgument" ELSE "AddAttack")
            ELSE (IF sym.kind = "arg" THEN "DelArgument" ELSE "DelAttack"),
     sym |-> sym]

(* tgfm::parse_line: a sign, then patches separated by ':'; a '.' is no    *)
(* token of this format                                                    *)
tgfm_parse_line(line) ==
    IF line.period
    THEN [ok |-> FALSE, patches |-> <<>>]
    ELSE [ok |-> TRUE, patches |-> [i \in DOMAIN line.items |-> af_AddDel(line.sign, line.items[i])]]

(* Iterator::position: index of the first equal entry, 0 for None *)
position(v, x) ==
    IF \E i \in DOMAIN v : v[i] = x
    THEN CHOOSE i \in DOMAIN v : v[i] = x /\ \A j \in 1..(i - 1) : v[j] # x
    ELSE 0

(* Vec::swap_remove: the last entry takes the place of the removed one *)
swap_remove(v, idx) ==
    [i \in 1..(Len(v) - 1) |-> IF i = idx THEN v[Len(v)] ELSE v[i]]

(* af::ArgumentationFramework::apply_patch *)
af_apply_patch(st, patch) ==
    IF patch.op = "AddArgument" THEN [st EXCEPT !.args = Append(@, patch.sym)]
    ELSE IF patch.op = "DelArgument"
    THEN (IF position(st.args, patch.sym) # 0
          THEN [st EXCEPT !.args = swap_remove(@, position(st.args, patch.sym))]
          ELSE st)
    ELSE IF patch.op = "AddAttack" THEN [st EXCEPT !.attacks = Append(@, patch.sym)]
    ELSE (IF position(st.attacks, patch.sym) # 0
          THEN [st EXCEPT !.attacks = swap_remove(@, position(st.attacks, patch.sym))]
          ELSE st)

RECURSIVE af_for_each(_, _)
af_for_each(st, patches) ==
    IF patches = <<>> THEN st
    ELSE af_for_each(af_apply_patch(st, Head(patches)), Tail(patches))

(* af::ArgumentationFramework::update: parse, apply every patch, Ok(()) *)
af_update(st, line) ==
    LET parsed == tgfm_parse_line(line)
    IN  IF ~parsed.ok THEN [err |-> "Parser", st |-> st]
        ELSE [err |-> "none", st |-> af_for_each(st, parsed.patches)]

(* initialize_clingo_backend: the fact base handed to the solver *)
initialize_clingo_backend(a, t) == Range(a) \cup Range(t)

ArgIds(S) == {e.id : e \in {x \in S : x.kind = "arg"}}
AttPairsOf(S) == {<<e.from, e.to>> : e \in {x \in S : x.kind = "att"}}

InitStore ==
    /\ \E f \in StoreFiles :
          /\ af_parse_file(f).ok
          /\ args = af_parse_file(f).args
          /\ attacks = af_parse_file(f).attacks
          /\ facts = initialize_clingo_backend(af_parse_file(f).args, af_parse_file(f).attacks)
    /\ printed = {}
    /\ store_result = Res("new", "Ok", {})
    /\ LibIdle /\ LoadIdle /\ GenIdle /\ RevIdle /\ SemIdle /\ CliIdle /\ AuxIdle

StoreUpdate ==
    /\ \E line \in StoreLines :
          LET r == af_update([args |-> args, attacks |-> attacks], line)
          IN  /\ Len(r.st.args) <= MaxEntries
              /\ Len(r.st.attacks) <= MaxEntries
              /\ args' = r.st.args
              /\ attacks' = r.st.attacks
              /\ store_result' = UpdateRes(IF r.err = "none" THEN "Ok" ELSE r.err, line)
    /\ UNCHANGED <<facts, printed>>
    /\ UNCHANGED <<lib_vars, load_vars, gen_vars, rev_vars, sem_vars, cli_vars, aux_vars>>

(* run_task_enumerate_extensions: enumerate, print every extension, drop *)
StoreEnumerate ==
    /\ printed' = Extensions(ArgIds(facts), AttPairsOf(facts))
    /\ store_result' = Res("enumerate_extensions", "Ok", {})
    /\ UNCHANGED <<args, attacks, facts>>
    /\ UNCHANGED <<lib_vars, load_vars, gen_vars, rev_vars, sem_vars, cli_vars, aux_vars>>

NextStore ==
    \/ StoreUpdate
    \/ StoreEnumerate

SpecStore == InitStore /\ [][NextStore]_vars

InStore(sym) == sym \in Range(args) \cup Range(attacks)

(* C2: after the update lines applied so far, an enumeration yields the    *)
(* extensions of the framework made of exactly the elements those lines    *)
(* leave in place, starting from the initial load.                         *)
C2_EnumerationFollowsUpdates ==
    store_result.op = "enumerate_extensions" =>
        printed = Extensions(ArgIds(Range(args)), AttPairsOf(Range(attacks)))

(* C4: an update whose patch, enabling or disabling, names an argument or  *)
(* attack the framework does not have returns an error; it is never        *)
(* accepted silently.                                                      *)
C4_UnknownTargetIsAnError ==
    [][(/\ store_result'.op = "update"
        /\ ~store_result'.line.period
        /\ \E i \in DOMAIN store_result'.line.items : ~InStore(store_result'.line.items[i]))
       => store_result'.val # "Ok"]_vars

(* C6: enabling an element that is already there succeeds and leaves the   *)
(* store as it was: the same elements and no additional entry.             *)
C6_EnableAliveIsIdempotent ==
    [][(/\ store_result'.op = "update"
        /\ ~store_result'.line.period
        /\ store_result'.line.sign = "+"
        /\ Len(store_result'.line.items) = 1
        /\ InStore(store_result'.line.items[1]))
       => (/\ store_result'.val = "Ok"
           /\ args' = args
           /\ attacks' = attacks)]_vars

(* C9: the store never holds two entries for one argument id, nor two for  *)
(* one attack pair, after the load and after any patches.                  *)
C9_OneEntryPerElement ==
    /\ \A i, j \in DOMAIN args : args[i] = args[j] => i = j
    /\ \A i, j \in DOMAIN attacks : attacks[i] = attacks[j] => i = j

-----------------------------------------------------------------------------
(* SpecGen: the generator of frameworks and update lines.  Every outcome   *)
(* of the random draws is a possible step.  updates keeps the length of    *)
(* the vector of update lines and the line pushed last.                    *)

GenIds == 0..(ArgCount - 1)

(* State of a generated element: AF::generate *)
InitialState(optional) == IF optional THEN "Dead" ELSE "Alive"

(* generate_arguments, with the state AF::generate gives each *)
GeneratedArgs ==
    {[i \in GenIds |-> [optional |-> o[i], state |-> InitialState(o[i])]] : o \in [GenIds -> BOOLEAN]}

(* generate_attacks, with the state AF::generate gives each: every pair    *)
(* is drawn or not, and optional or not                                    *)
GeneratedAtts ==
    UNION {{[p \in D |-> [optional |-> o[p], state |-> InitialState(o[p])]] : o \in [D -> BOOLEAN]}
             : D \in {E \in SUBSET (GenIds \X GenIds) : Cardinality(E) <= MaxAtts}}

dead_args_none(a) == {}

dead_args(a) == {i \in DOMAIN a : a[i].state = "Dead"}

dead_attacks(t) == {p \in DOMAIN t : t[p].state = "Dead"}

alive_args_any(a) == {i \in DOMAIN a : a[i].state = "Alive"}
alive_but_optional_args(a) == {i \in DOMAIN a : a[i].optional /\ a[i].state = "Alive"}

alive_but_optional_attacks(t) == {p \in DOMAIN t : t[p].optional /\ t[p].state = "Alive"}

contains_any(p, id) == TRUE

(* Attack::contains *)
contains(p, id) == p[1] = id \/ p[2] = id

UpdateLine(kind, sym, atts) == [kind |-> kind, sym |-> sym, attacks |-> atts]

(* UpdateLine::generate: the set of lines the draws can produce; empty     *)
(* when there is no valid option (None)                                    *)
generate(a, t) ==
    UNION {{UpdateLine("EnableArgument", Argument(i), S) :
              S \in SUBSET {p \in dead_attacks(t) : contains(p, i)}} : i \in dead_args(a)}
    \cup {UpdateLine("EnableAttack", Attack(p[1], p[2]), {}) : p \in dead_attacks(t)}
    \cup {UpdateLine("DisableArgument", Argument(i), {}) : i \in alive_but_optional_args(a)}
    \cup {UpdateLine("DisableAttack", Attack(p[1], p[2]), {}) : p \in alive_but_optional_attacks(t)}

(* AF::apply_update *)
apply_update(a, t, u) ==
    IF u.kind = "EnableArgument"
    THEN [args |-> [a EXCEPT ![u.sym.id].state = "Alive"],
          atts |-> [p \in DOMAIN t |-> IF p \in u.attacks THEN [t[p] EXCEPT !.state = "Alive"] ELSE t[p]]]
    ELSE IF u.kind = "DisableArgument"
    THEN [args |-> [a EXCEPT ![u.sym.id].state = "Dead"], atts |-> t]
    ELSE IF u.kind = "EnableAttack"
    THEN [args |-> a, atts |-> [t EXCEPT ![<<u.sym.from, u.sym.to>>].state = "Alive"]]
    ELSE [args |-> a, atts |-> [t EXCEPT ![<<u.sym.from, u.sym.to>>].state = "Dead"]]

(* the call write_intermediate_file(nr), made when                        *)
(* ARGS.output_intermediates is set; an I/O error is only logged           *)
write_intermediate_file(im, nr) ==
    IF im.on THEN [im EXCEPT !.written = @ \cup {nr}] ELSE im

(* the loop variable of `for update_nr in 1..=ARGS.nr_of_updates` in the   *)
(* turn that follows `turns` completed turns                               *)
loop_from_zero(turns) == turns
loop_update_nr(turns) == turns + 1

InitGen ==
    /\ gen_args \in GeneratedArgs
    /\ gen_atts \in GeneratedAtts
    /\ updates = NoUpdates
    /\ update_nr = 0
    /\ \E on \in BOOLEAN :
          intermediates = write_intermediate_file([on |-> on, written |-> {}], 0)
    /\ LibIdle /\ LoadIdle /\ StoreIdle /\ RevIdle /\ SemIdle /\ CliIdle /\ AuxIdle

(* one turn of the loop of generate_apply_updates, Some(update) *)
GenerateApplies ==
    /\ update_nr < NrOfUpdates
    /\ \E u \in generate(gen_args, gen_atts) :
          /\ gen_args' = apply_update(gen_args, gen_atts, u).args
          /\ gen_atts' = apply_update(gen_args, gen_atts, u).atts
          /\ updates' = [count |-> updates.count + 1, last |-> u]
    /\ intermediates' = write_intermediate_file(intermediates, loop_update_nr(update_nr))
    /\ update_nr' = update_nr + 1
    /\ UNCHANGED <<lib_vars, load_vars, store_vars, rev_vars, sem_vars, cli_vars, aux_vars>>

(* one turn of the loop, None: the error is logged, nothing is pushed *)
GenerateNone ==
    /\ update_nr < NrOfUpdates
    /\ generate(gen_args, gen_atts) = {}
    /\ update_nr' = update_nr + 1
    /\ UNCHANGED <<gen_args, gen_atts, updates, intermediates>>
    /\ UNCHANGED <<lib_vars, load_vars, store_vars, rev_vars, sem_vars, cli_vars, aux_vars>>

NextGen ==
    \/ GenerateApplies
    \/ GenerateNone

SpecGen == InitGen /\ [][NextGen]_vars

C36_EnableArgumentFrame ==
    [][(updates'.count # updates.count /\ updates'.last.kind = "EnableArgument") =>
         LET u == updates'.last
         IN  /\ gen_args'[u.sym.id].state = "Alive"
             /\ \A p \in u.attacks : gen_atts'[p].state = "Alive"
             /\ \A i \in DOMAIN gen_args \ {u.sym.id} : gen_args'[i] = gen_args[i]
             /\ \A p \in DOMAIN gen_atts \ u.attacks : gen_atts'[p] = gen_atts[p]
             /\ DOMAIN gen_args' = DOMAIN gen_args /\ DOMAIN gen_atts' = DOMAIN gen_atts
             /\ \A p \in u.attacks :
                   /\ gen_atts[p].state = "Dead"
                   /\ p[1] = u.sym.id \/ p[2] = u.sym.id]_vars

(* an argument was enabled together with one of its Dead attacks while     *)
(* another Dead attack stayed Dead                                         *)
C36_Witness ==
    /\ updates.last.kind = "EnableArgument"
    /\ updates.last.attacks # {}
    /\ \A p \in updates.last.attacks : gen_atts[p].state = "Alive"
    /\ \E p \in DOMAIN gen_atts \ updates.last.attacks : gen_atts[p].state = "Dead"

(* some argument or attack of the generated framework is optional *)
HasOptional ==
    \/ \E i \in DOMAIN gen_args : gen_args[i].optional
    \/ \E p \in DOMAIN gen_atts : gen_atts[p].optional

(* C39: with at least one optional element every turn of the loop          *)
(* generates and applies an update, so the list ends with nr_of_updates    *)
(* entries and snapshot k is written after exactly k updates; with no      *)
(* optional element no turn generates an update and nothing ever changes.  *)
C39_EveryTurnUpdatesOrNone ==
    [][/\ HasOptional =>
            /\ updates'.count = updates.count + 1
            /\ updates'.count = update_nr'
            /\ update_nr' = NrOfUpdates => updates'.count = NrOfUpdates
            /\ intermediates.on =>
                  intermediates'.written = intermediates.written \cup {updates'.count}
       /\ ~HasOptional =>
            /\ updates' = NoUpdates
            /\ gen_args' = gen_args /\ gen_atts' = gen_atts
            /\ intermediates' = intermediates]_vars

(* the loop has run all its turns on a framework with an optional element  *)
C39_Witness ==
    /\ HasOptional
    /\ update_nr = NrOfUpdates
    /\ updates.count = NrOfUpdates
    /\ intermediates.on /\ intermediates.written = 0..NrOfUpdates

-----------------------------------------------------------------------------
(* SpecRev: the revision-tagged encoding.  Facts argument(X, r) and        *)
(* attack(X, Y, r) and markers delete(.., r) are asserted per revision,    *)
(* and the theory is grounded once for every revision.                     *)

RevTargets == StoreTargets \cup {Argument(UnknownId)}

(* Argument::symbol(revision) / Attack::symbol(revision) *)
symbol(sym, rev) == [sym |-> sym, rev |-> rev]

(* Delete::symbol(revision): delete(<symbol at revision>, revision) *)
delete_symbol(sym, rev) == [sym |-> symbol(sym, rev).sym, rev |-> rev]

(* `not delete(argument(X, _), revision)`: a marker of this revision *)
deleted_any_revision(sym, rev, deletes) == \E d \in deletes : d.sym = sym
deleted(sym, rev, deletes) == \E d \in deletes : d.sym = sym /\ d.rev = rev

(* argument(X, revision) :- argument(X, revision - 1), not delete(..).     *)
(* attack(X, Y, revision) likewise; asserted facts hold as they are        *)
RECURSIVE Present(_, _, _, _)
Present(sym, rev, fs, deletes) ==
    \/ symbol(sym, rev) \in fs
    \/ /\ rev > 0
       /\ Present(sym, rev - 1, fs, deletes)
       /\ ~deleted(sym, rev, deletes)

PresentAt(rev, fs, deletes) == {e \in StoreTargets : Present(e, rev, fs, deletes)}

(* the answer sets of the theory grounded for the revisions 0..rev: one    *)
(* admissible set per revision, shown as in(X, revision)                   *)
RevModels(rev, fs, deletes) ==
    {m \in [0..rev -> SUBSET ArgIds(StoreTargets)] :
        \A k \in 0..rev :
            m[k] \in Extensions(ArgIds(PresentAt(k, fs, deletes)),
                                AttPairsOf(PresentAt(k, fs, deletes)))}

(* Extension::from_model: every shown symbol becomes an entry, named by    *)
(* the text of the symbol, in("x",k)                                       *)
from_model(model) ==
    {e \in [id : ArgIds(StoreTargets), rev : DOMAIN model] : e.id \in model[e.rev]}

RevPatches == [op : {"Enable", "Disable"}, sym : RevTargets]

NonOptional(fs) == {f.sym : f \in {g \in fs : g.rev = 0}}

(* apply(patch) of the revisioned store *)
rev_apply_counting_failures(st, patch) ==
    [st EXCEPT !.revision = @ + 1,
               !.err = IF patch.sym \in StoreTargets THEN "none" ELSE "UnknownElement"]
rev_apply(st, patch) ==
    IF patch.sym \notin StoreTargets THEN [st EXCEPT !.err = "UnknownElement"]
    ELSE IF patch.sym \in NonOptional(st.facts) THEN [st EXCEPT !.err = "IllegalTransition"]
    ELSE IF patch.op = "Enable"
    THEN [st EXCEPT !.revision = @ + 1, !.err = "none",
                    !.facts = @ \cup {symbol(patch.sym, st.revision + 1)}]
    ELSE [st EXCEPT !.revision = @ + 1, !.err = "none",
                    !.deletes = @ \cup {delete_symbol(patch.sym, st.revision + 1)}]

InitRev ==
    /\ revision = 0
    /\ \E E \in SUBSET StoreTargets : rev_facts = {symbol(e, 0) : e \in E}
    /\ rev_deletes = {}
    /\ applied = 0
    /\ rev_result = RevRes("new", "Ok", {})
    /\ LibIdle /\ LoadIdle /\ StoreIdle /\ GenIdle /\ SemIdle /\ CliIdle /\ AuxIdle

RevUpdate ==
    /\ \E patch \in RevPatches :
          LET r == rev_apply([revision |-> revision, facts |-> rev_facts,
                              deletes |-> rev_deletes, err |-> "none"], patch)
          IN  /\ r.revision <= MaxRevision
              /\ revision' = r.revision
              /\ rev_facts' = r.facts
              /\ rev_deletes' = r.deletes
              /\ applied' = IF r.err = "none" THEN applied + 1 ELSE applied
              /\ rev_result' = RevRes("update", IF r.err = "none" THEN "Ok" ELSE r.err, {})
    /\ UNCHANGED <<lib_vars, load_vars, store_vars, gen_vars, sem_vars, cli_vars, aux_vars>>

(* enumerate_extensions and collect: every model decoded by from_model *)
RevEnumerate ==
    /\ rev_result' = RevRes("enumerate_extensions", "Ok",
                            {from_model(m) : m \in RevModels(revision, rev_facts, rev_deletes)})
    /\ UNCHANGED <<revision, rev_facts, rev_deletes, applied>>
    /\ UNCHANGED <<lib_vars, load_vars, store_vars, gen_vars, sem_vars, cli_vars, aux_vars>>

NextRev ==
    \/ RevUpdate
    \/ RevEnumerate

SpecRev == InitRev /\ [][NextRev]_vars

CarriedForward ==
    \A sym \in StoreTargets : \A r \in 1..revision :
        (/\ Present(sym, r - 1, rev_facts, rev_deletes)
         /\ delete_symbol(sym, r) \notin rev_deletes)
        => Present(sym, r, rev_facts, rev_deletes)

(* what the revisions reached so far contain is left as it is *)
EarlierRevisionsKept ==
    \A sym \in StoreTargets : \A k \in 0..revision :
        Present(sym, k, rev_facts', rev_deletes') = Present(sym, k, rev_facts, rev_deletes)

(* C16: in the revision-tagged encoding an element present at revision     *)
(* r-1 is present at revision r unless a delete marker for it is asserted  *)
(* at r, and a delete marker asserted at r removes the element from no     *)
(* revision earlier than r.                                                *)
C16_DeleteActsFromItsRevisionOn ==
    []CarriedForward /\ [][EarlierRevisionsKept]_vars

(* an element is deleted at a revision after one it was carried into *)
C16_Witness ==
    \E sym \in StoreTargets : \E r \in 1..revision :
        /\ delete_symbol(sym, r) \in rev_deletes
        /\ Present(sym, r - 1, rev_facts, rev_deletes)
        /\ ~Present(sym, r, rev_facts, rev_deletes)
        /\ symbol(sym, r - 1) \notin rev_facts


(* C17: every Extension decoded from a model contains only arguments       *)
(* whose inclusion symbols carry the current revision.                     *)
C17_ExtensionOfCurrentRevisionOnly ==
    rev_result.op = "enumerate_extensions"
    => \A ext \in rev_result.exts : \A e \in ext : e.rev = revision


(* the arguments and attacks present at the current revision *)
RevAliveArgs == ArgIds(PresentAt(revision, rev_facts, rev_deletes))
RevAliveAtts == AttPairsOf(PresentAt(revision, rev_facts, rev_deletes))

(* x was an argument of the framework at some revision so far *)
Declared(x) ==
    \E k \in 0..revision : Present(Argument(x), k, rev_facts, rev_deletes)

(* C37: an Alive attack whose source or target argument is Dead has no     *)
(* effect: the extensions enumerated at a revision are those of the Alive  *)
(* arguments with the Alive attacks between them.                          *)
C37_DanglingAttackHasNoEffect ==
    (/\ rev_result.op = "enumerate_extensions"
     /\ \A p \in RevAliveAtts : Declared(p[1]) /\ Declared(p[2]))
    => {{e.id : e \in {f \in ext : f.rev = revision}} : ext \in rev_result.exts}
         = Extensions(RevAliveArgs,
                      {p \in RevAliveAtts : p[1] \in RevAliveArgs /\ p[2] \in RevAliveArgs})

-----------------------------------------------------------------------------
(* SpecSem: a framework under each semantics, and the queries the          *)
(* Framework trait derives from enumerate_extensions                       *)

SemIds == {"1", "2", "3"}
SemPairs == SemIds \X SemIds
SemanticsTags == {"ConflictFree", "Admissible", "Complete", "Stable", "Ground"}

conflict_free_apart(S, atts) ==
    \A p \in atts : p[1] # p[2] => ~(p[1] \in S /\ p[2] \in S)

(* :- in(X), in(Y), attack(X, Y). *)
conflict_free(S, atts) == \A p \in atts : ~(p[1] \in S /\ p[2] \in S)

ConflictFreeExtensions(arguments, atts) ==
    {S \in SUBSET arguments : conflict_free(S, atts)}

admissible_only(arguments, atts) == Extensions(arguments, atts)

(* admissible, and every argument left out is not defended *)
CompleteExtensions(arguments, atts) ==
    {S \in Extensions(arguments, atts) :
        \A x \in arguments \ S : x \in not_defended(S, atts)}

(* conflict-free, and every argument left out is defeated *)
StableExtensions(arguments, atts) ==
    {S \in ConflictFreeExtensions(arguments, atts) :
        \A x \in arguments \ S : x \in defeated(S, atts)}

(* the least fixed point of "the arguments S defends", from the empty set *)
RECURSIVE ground_from(_, _, _)
ground_from(S, arguments, atts) ==
    LET T == {x \in arguments : x \notin not_defended(S, atts)}
    IN  IF T = S THEN S ELSE ground_from(T, arguments, atts)

ground_unattacked(arguments, atts) ==
    {{x \in arguments : x \notin not_defended({}, atts)}}

GroundExtensions(arguments, atts) == {ground_from({}, arguments, atts)}

SemExtensions(sem, arguments, atts) ==
    CASE sem = "ConflictFree" -> ConflictFreeExtensions(arguments, atts)
      [] sem = "Admissible"   -> Extensions(arguments, atts)
      [] sem = "Complete"     -> CompleteExtensions(arguments, atts)
      [] sem = "Stable"       -> StableExtensions(arguments, atts)
      [] sem = "Ground"       -> GroundExtensions(arguments, atts)

(* some order of a set *)
RECURSIVE Listing(_)
Listing(S) ==
    IF S = {} THEN <<>>
    ELSE LET x == CHOOSE y \in S : TRUE
         IN  <<x>> \o Listing(S \ {x})

(* the orders the solver may yield the extensions in: any set of them      *)
(* first, then any other one, then the rest                                *)
Orders(exts) ==
    IF exts = {} THEN {<<>>}
    ELSE UNION {{Listing(front) \o <<e>> \o Listing((exts \ front) \ {e}) :
                    e \in exts \ front} : front \in SUBSET exts}

(* GenericExtension::contains: the argument is among the atoms *)
ext_contains(ext, arg) == arg \in ext

(* FallibleIterator::any over the guard: next() until the closure says     *)
(* true or the iterator is exhausted; n items were taken so far            *)
RECURSIVE any_from(_, _, _)
any_from(seq, arg, n) ==
    IF n = Len(seq) THEN [val |-> "false", calls |-> n + 1, seen |-> seq]
    ELSE IF ext_contains(seq[n + 1], arg)
         THEN [val |-> "true", calls |-> n + 1, seen |-> SubSeq(seq, 1, n + 1)]
         ELSE any_from(seq, arg, n + 1)

any_drains(seq, arg) ==
    [val |-> IF \E i \in DOMAIN seq : ext_contains(seq[i], arg) THEN "true" ELSE "false",
     calls |-> Len(seq) + 1, seen |-> seq]

any(seq, arg) == any_from(seq, arg, 0)

(* FallibleIterator::all over the guard: next() until the closure says     *)
(* false or the iterator is exhausted                                      *)
RECURSIVE all_from(_, _, _)
all_from(seq, arg, n) ==
    IF n = Len(seq) THEN [val |-> "true", calls |-> n + 1, seen |-> seq]
    ELSE IF ~ext_contains(seq[n + 1], arg)
         THEN [val |-> "false", calls |-> n + 1, seen |-> SubSeq(seq, 1, n + 1)]
         ELSE all_from(seq, arg, n + 1)

all_drains(seq, arg) ==
    [val |-> IF \A i \in DOMAIN seq : ext_contains(seq[i], arg) THEN "true" ELSE "false",
     calls |-> Len(seq) + 1, seen |-> seq]

all(seq, arg) == all_from(seq, arg, 0)

QueryRes(op, arg, r) ==
    [op |-> op, val |-> r.val, arg |-> arg, calls |-> r.calls, seen |-> r.seen, exts |-> {}]

Failed == [val |-> "ClingoError", calls |-> 0, seen |-> <<>>]

InitSem ==
    /\ semantics \in SemanticsTags
    /\ sem_args \in SUBSET SemIds
    /\ sem_atts \in {A \in SUBSET SemPairs : Cardinality(A) <= MaxSemAtts}
    /\ sem_result = SemRes("new", "Ok")
    /\ LibIdle /\ LoadIdle /\ StoreIdle /\ GenIdle /\ RevIdle /\ CliIdle /\ AuxIdle

(* enumerate_extensions, drained and collected *)
SemEnumerate ==
    /\ sem_result' = [SemRes("enumerate_extensions", "Ok")
                        EXCEPT !.exts = SemExtensions(semantics, sem_args, sem_atts)]
    /\ UNCHANGED <<semantics, sem_args, sem_atts>>
    /\ UNCHANGED <<lib_vars, load_vars, store_vars, gen_vars, rev_vars, cli_vars, aux_vars>>

(* Framework::is_credulous_accepted *)
IsCredulousAccepted ==
    /\ \E arg \in SemIds :
          \/ sem_result' = QueryRes("is_credulous_accepted", arg, Failed)
          \/ \E seq \in Orders(SemExtensions(semantics, sem_args, sem_atts)) :
                sem_result' = QueryRes("is_credulous_accepted", arg, any(seq, arg))
    /\ UNCHANGED <<semantics, sem_args, sem_atts>>
    /\ UNCHANGED <<lib_vars, load_vars, store_vars, gen_vars, rev_vars, cli_vars, aux_vars>>

(* Framework::is_skeptical_accepted *)
IsSkepticalAccepted ==
    /\ \E arg \in SemIds :
          \/ sem_result' = QueryRes("is_skeptical_accepted", arg, Failed)
          \/ \E seq \in Orders(SemExtensions(semantics, sem_args, sem_atts)) :
                sem_result' = QueryRes("is_skeptical_accepted", arg, all(seq, arg))
    /\ UNCHANGED <<semantics, sem_args, sem_atts>>
    /\ UNCHANGED <<lib_vars, load_vars, store_vars, gen_vars, rev_vars, cli_vars, aux_vars>>

NextSem == SemEnumerate

SpecSem == InitSem /\ [][NextSem]_vars

Enumerated(sem) == sem_result.op = "enumerate_extensions" /\ semantics = sem

(* no attack of the framework joins two members of S (or one to itself) *)
NoAttackWithin(S) == \A x \in S : \A y \in S : <<x, y>> \notin sem_atts

(* some member of S attacks y *)
AttackedBy(S, y) == \E z \in S : <<z, y>> \in sem_atts

(* every attacker of x is attacked by S *)
DefendedBy(S, x) == \A y \in SemIds : <<y, x>> \in sem_atts => AttackedBy(S, y)

(* C26: a framework with no arguments has exactly one extension, the       *)
(* empty one, under each of the five semantics.                            *)
C26_EmptyFrameworkHasTheEmptyExtension ==
    (sem_result.op = "enumerate_extensions" /\ sem_args = {})
    => sem_result.exts = {{}}

C26_Witness ==
    /\ sem_result.op = "enumerate_extensions" /\ sem_args = {}
    /\ semantics = "Admissible" /\ sem_atts # {}
    /\ sem_result.exts = {{}}

(* C27: under Conflict-Free the extensions are exactly the sets of         *)
(* arguments no attack joins; an argument attacking itself is in none.     *)
C27_ConflictFreeSets ==
    Enumerated("ConflictFree")
    => /\ sem_result.exts = {S \in SUBSET sem_args : NoAttackWithin(S)}
       /\ \A x \in sem_args : <<x, x>> \in sem_atts
             => \A e \in sem_result.exts : x \notin e

C27_Witness ==
    /\ Enumerated("ConflictFree")
    /\ sem_args = {"1", "2", "3"}
    /\ sem_atts = {<<"1", "1">>, <<"2", "3">>}
    /\ sem_result.exts = {{}, {"2"}, {"3"}}

(* C28: under Admissible the extensions are exactly the conflict-free      *)
(* sets that attack every attacker of their members; arguments 1, 2, 3     *)
(* with attacks 1->3, 2->3, 3->2 have {}, {1}, {2}, {1,2}.                 *)
C28_AdmissibleSets ==
    Enumerated("Admissible")
    => /\ sem_result.exts =
            {S \in SUBSET sem_args : NoAttackWithin(S) /\ \A x \in S : DefendedBy(S, x)}
       /\ (sem_args = {"1", "2", "3"}
            /\ sem_atts = {<<"1", "3">>, <<"2", "3">>, <<"3", "2">>})
           => sem_result.exts = {{}, {"1"}, {"2"}, {"1", "2"}}

C28_Witness ==
    /\ Enumerated("Admissible")
    /\ sem_args = {"1", "2", "3"}
    /\ sem_atts = {<<"1", "3">>, <<"2", "3">>, <<"3", "2">>}
    /\ sem_result.exts = {{}, {"1"}, {"2"}, {"1", "2"}}

(* C29: under Stable the extensions are exactly the conflict-free sets     *)
(* that attack every argument outside them; arguments 1, 2 with attacks    *)
(* 1->2, 1->1 have none, and 1, 2, 3 with 1->3, 2->3, 3->2 have only {1,2}.*)
C29_StableSets ==
    Enumerated("Stable")
    => /\ sem_result.exts =
            {S \in SUBSET sem_args :
                NoAttackWithin(S) /\ \A x \in sem_args \ S : AttackedBy(S, x)}
       /\ (sem_args = {"1", "2"} /\ sem_atts = {<<"1", "2">>, <<"1", "1">>})
           => sem_result.exts = {}
       /\ (sem_args = {"1", "2", "3"}
            /\ sem_atts = {<<"1", "3">>, <<"2", "3">>, <<"3", "2">>})
           => sem_result.exts = {{"1", "2"}}

C29_Witness ==
    /\ Enumerated("Stable")
    /\ sem_args = {"1", "2"} /\ sem_atts = {<<"1", "2">>, <<"1", "1">>}
    /\ sem_result.exts = {}

(* C30: under Complete the extensions are exactly the admissible sets      *)
(* that contain every argument they defend; arguments 1, 2, 3 with         *)
(* attacks 1->2, 2->1 have {3}, {1,3}, {2,3}, with 1->2, 1->1 only {3}.    *)
C30_CompleteSets ==
    Enumerated("Complete")
    => /\ sem_result.exts =
            {S \in SUBSET sem_args :
                /\ NoAttackWithin(S)
                /\ \A x \in sem_args : x \in S <=> DefendedBy(S, x)}
       /\ (sem_args = {"1", "2", "3"} /\ sem_atts = {<<"1", "2">>, <<"2", "1">>})
           => sem_result.exts = {{"3"}, {"1", "3"}, {"2", "3"}}
       /\ (sem_args = {"1", "2", "3"} /\ sem_atts = {<<"1", "2">>, <<"1", "1">>})
           => sem_result.exts = {{"3"}}

C30_Witness ==
    /\ Enumerated("Complete")
    /\ sem_args = {"1", "2", "3"} /\ sem_atts = {<<"1", "2">>, <<"2", "1">>}
    /\ sem_result.exts = {{"3"}, {"1", "3"}, {"2", "3"}}

(* the complete sets in the claim's words: conflict-free, and holding      *)
(* exactly the arguments they defend                                       *)
CompleteSets ==
    {S \in SUBSET sem_args :
        NoAttackWithin(S) /\ \A x \in sem_args : x \in S <=> DefendedBy(S, x)}

(* C31: under Ground every framework has exactly one extension, the least  *)
(* complete one: {1} for one unattacked argument, the empty one for two    *)
(* arguments attacking each other, {1,2} for 1, 2, 3 with 1->3, 2->3, 3->2.*)
C31_GroundIsTheLeastComplete ==
    Enumerated("Ground")
    => /\ Cardinality(sem_result.exts) = 1
       /\ \A g \in sem_result.exts :
            g \in CompleteSets /\ \A c \in CompleteSets : g \subseteq c
       /\ (sem_args = {"1"} /\ sem_atts = {}) => sem_result.exts = {{"1"}}
       /\ (sem_args = {"1", "2"} /\ sem_atts = {<<"1", "2">>, <<"2", "1">>})
           => sem_result.exts = {{}}
       /\ (sem_args = {"1", "2", "3"}
            /\ sem_atts = {<<"1", "3">>, <<"2", "3">>, <<"3", "2">>})
           => sem_result.exts = {{"1", "2"}}

C31_Witness ==
    /\ Enumerated("Ground")
    /\ sem_args = {"1", "2"}
    /\ sem_atts = {<<"1", "2">>, <<"2", "1">>}
    /\ sem_result.exts = {{}}
    /\ CompleteSets = {{}, {"1"}, {"2"}}

-----------------------------------------------------------------------------
(* SpecQuery: the derived queries, on frameworks over two arguments        *)

QueryIds == {"1", "2"}

InitQuery ==
    /\ semantics \in SemanticsTags
    /\ sem_args \in SUBSET QueryIds
    /\ sem_atts \in SUBSET (QueryIds \X QueryIds)
    /\ sem_result = SemRes("new", "Ok")
    /\ LibIdle /\ LoadIdle /\ StoreIdle /\ GenIdle /\ RevIdle /\ CliIdle /\ AuxIdle

NextQuery ==
    \/ IsCredulousAccepted
    \/ IsSkepticalAccepted

SpecQuery == InitQuery /\ [][NextQuery]_vars

SemCurrent == SemExtensions(semantics, sem_args, sem_atts)

(* C22: is_credulous_accepted(arg) answers true exactly when some          *)
(* extension of the current framework contains arg, and the first          *)
(* extension containing arg is the last item it takes from the iterator.   *)
C22_CredulousShortCircuits ==
    (sem_result.op = "is_credulous_accepted" /\ sem_result.val \in {"true", "false"})
    => /\ sem_result.val = "true" <=> \E e \in SemCurrent : sem_result.arg \in e
       /\ \A i \in 1..(Len(sem_result.seen) - 1) : sem_result.arg \notin sem_result.seen[i]
       /\ sem_result.val = "true" =>
            /\ sem_result.arg \in sem_result.seen[Len(sem_result.seen)]
            /\ sem_result.calls = Len(sem_result.seen)
       /\ sem_result.val = "false" =>
            /\ Range(sem_result.seen) = SemCurrent
            /\ sem_result.calls = Len(sem_result.seen) + 1

(* true after a miss, with extensions left that were never asked for *)
C22_Witness ==
    /\ sem_result.op = "is_credulous_accepted" /\ sem_result.val = "true"
    /\ semantics = "Admissible"
    /\ sem_result.calls >= 2
    /\ Len(sem_result.seen) < Cardinality(SemCurrent)


(* C23: is_skeptical_accepted(arg) answers true exactly when every         *)
(* extension of the current framework contains arg (so also when there is  *)
(* no extension), and the first extension lacking arg is the last item it  *)
(* takes from the iterator.                                                *)
C23_SkepticalShortCircuits ==
    (sem_result.op = "is_skeptical_accepted" /\ sem_result.val \in {"true", "false"})
    => /\ sem_result.val = "true" <=> \A e \in SemCurrent : sem_result.arg \in e
       /\ SemCurrent = {} => sem_result.val = "true"
       /\ \A i \in 1..(Len(sem_result.seen) - 1) : sem_result.arg \in sem_result.seen[i]
       /\ sem_result.val = "false" =>
            /\ sem_result.arg \notin sem_result.seen[Len(sem_result.seen)]
            /\ sem_result.calls = Len(sem_result.seen)
       /\ sem_result.val = "true" =>
            /\ Range(sem_result.seen) = SemCurrent
            /\ sem_result.calls = Len(sem_result.seen) + 1

(* false after an extension that has the argument, with extensions left    *)
(* that were never asked for                                               *)
C23_Witness ==
    /\ sem_result.op = "is_skeptical_accepted" /\ sem_result.val = "false"
    /\ sem_result.calls >= 2
    /\ Len(sem_result.seen) < Cardinality(SemCurrent)


-----------------------------------------------------------------------------
(* SpecCli: a dynamic task of the cli, run_task_enumerate_extensions with  *)
(* Dynamics::Yes, reading its update stream through PathOrStdin::lines     *)

(* the text of a raw line without its surrounding whitespace: nothing, a   *)
(* patch line of the compact format, or one with a '.' that format rejects *)
CliBodies ==
    {NoLine,
     [sign |-> "+", items |-> <<Argument("a")>>, period |-> FALSE],
     [sign |-> "-", items |-> <<Argument("a")>>, period |-> FALSE],
     [sign |-> "+", items |-> <<Argument("b")>>, period |-> TRUE]}

(* a raw line: its text, with or without whitespace around it *)
RawLines == [pad : BOOLEAN, body : CliBodies]

CliStreams == SeqsUpTo(RawLines, MaxStream)

CliFiles == {f \in StoreFiles : Len(f) <= 1}

(* line.trim().to_owned() *)
trim(raw) == raw.body

is_empty_never(line) == FALSE

(* String::is_empty *)
is_empty(line) == line = NoLine

(* one next() on map(trim).take_while(!is_empty) over the reader's lines   *)
lines_next(stream, cursor) ==
    IF cursor = Len(stream) THEN [some |-> FALSE, line |-> NoLine, cursor |-> cursor]
    ELSE IF is_empty(trim(stream[cursor + 1]))
         THEN [some |-> FALSE, line |-> NoLine, cursor |-> cursor + 1]
         ELSE [some |-> TRUE, line |-> trim(stream[cursor + 1]), cursor |-> cursor + 1]

question_mark_ignored(err) == "running"

(* the `?` after ctx.update(..) and ctx.enumerate_extensions(): an Err     *)
(* returns from the task                                                   *)
question_mark(err) == IF err = "none" THEN "running" ELSE "Err"

(* Context::new and the results of the initial framework printed *)
InitCli ==
    /\ \E f \in CliFiles :
          /\ af_parse_file(f).ok
          /\ args = af_parse_file(f).args
          /\ attacks = af_parse_file(f).attacks
          /\ facts = initialize_clingo_backend(af_parse_file(f).args, af_parse_file(f).attacks)
    /\ printed = Extensions(ArgIds(facts), AttPairsOf(facts))
    /\ store_result = Res("enumerate_extensions", "Ok", {})
    /\ cli_stream \in CliStreams
    /\ cli_cursor = 0
    /\ cli_delivered = <<>>
    /\ cli_out = 1
    /\ cli_exit = "running"
    /\ LibIdle /\ LoadIdle /\ GenIdle /\ RevIdle /\ SemIdle /\ AuxIdle

(* update_iter.next()? gives None: the loop ends and the task returns Ok *)
CliTurnEnds ==
    /\ cli_exit = "running"
    /\ ~lines_next(cli_stream, cli_cursor).some
    /\ cli_cursor' = lines_next(cli_stream, cli_cursor).cursor
    /\ cli_exit' = "Ok"
    /\ UNCHANGED <<cli_stream, cli_delivered, cli_out>>
    /\ UNCHANGED <<lib_vars, load_vars, store_vars, gen_vars, rev_vars, sem_vars, aux_vars>>

(* update_iter.next()? gives a line: ctx.update(&update)?, then the        *)
(* extensions of the new framework are enumerated and printed              *)
CliTurnUpdates ==
    /\ cli_exit = "running"
    /\ lines_next(cli_stream, cli_cursor).some
    /\ LET n == lines_next(cli_stream, cli_cursor)
           r == af_update([args |-> args, attacks |-> attacks], n.line)
       IN  /\ cli_cursor' = n.cursor
           /\ cli_delivered' = Append(cli_delivered, n.line)
           /\ store_result' = UpdateRes(IF r.err = "none" THEN "Ok" ELSE r.err, n.line)
           /\ IF question_mark(r.err) = "Err"
              THEN /\ cli_exit' = "Err"
                   /\ UNCHANGED <<args, attacks, printed, cli_out>>
              ELSE /\ args' = r.st.args
                   /\ attacks' = r.st.attacks
                   /\ \E fault \in {"none", "ClingoError"} :
                         /\ cli_exit' = question_mark(fault)
                         /\ IF fault = "none"
                            THEN /\ printed' = Extensions(ArgIds(facts), AttPairsOf(facts))
                                 /\ cli_out' = cli_out + 1
                            ELSE UNCHANGED <<printed, cli_out>>
    /\ UNCHANGED <<facts, cli_stream>>
    /\ UNCHANGED <<lib_vars, load_vars, gen_vars, rev_vars, sem_vars, aux_vars>>

NextCli ==
    \/ CliTurnEnds
    \/ CliTurnUpdates

SpecCli == InitCli /\ [][NextCli]_vars

(* C24: in a dynamic task, when applying an update line fails the task     *)
(* ends with that error: nothing is printed for it, and afterwards no      *)
(* line is read or applied and no result is printed.                       *)
C24_FailedUpdateEndsTheStream ==
    [][/\ (cli_exit = "running" /\ cli_cursor' # cli_cursor
           /\ store_result'.op = "update" /\ store_result'.val # "Ok")
          => (cli_exit' = "Err" /\ cli_out' = cli_out)
       /\ (cli_exit = "running" /\ Len(cli_delivered') > Len(cli_delivered)
           /\ af_update([args |-> args, attacks |-> attacks],
                        cli_delivered'[Len(cli_delivered')]).err # "none")
          => (cli_exit' = "Err" /\ cli_out' = cli_out)
       /\ cli_exit = "Err"
          => /\ cli_cursor' = cli_cursor /\ cli_delivered' = cli_delivered
             /\ cli_out' = cli_out /\ args' = args /\ attacks' = attacks]_vars

(* an update failed after an earlier one was applied, with lines left *)
C24_Witness ==
    /\ cli_exit = "Err"
    /\ store_result.op = "update" /\ store_result.val = "Parser"
    /\ cli_out = 2
    /\ cli_cursor < Len(cli_stream)
    /\ ~is_empty(trim(cli_stream[cli_cursor + 1]))


(* position of the first raw line that is empty or blank, or one past the  *)
(* end of the stream                                                       *)
FirstBlank(stream) ==
    IF \E i \in DOMAIN stream : stream[i].body = NoLine
    THEN CHOOSE i \in DOMAIN stream :
            /\ stream[i].body = NoLine
            /\ \A j \in 1..(i - 1) : stream[j].body # NoLine
    ELSE Len(stream) + 1

(* the texts of the lines before the first blank one, in order *)
BeforeBlank(stream) == [i \in 1..(FirstBlank(stream) - 1) |-> stream[i].body]

(* C25: the update stream ends at the first empty or whitespace-only       *)
(* line: the non-empty lines before it are delivered in order, once each,  *)
(* and no line after it is delivered, even when non-empty lines follow.    *)
C25_StreamEndsAtFirstBlankLine ==
    /\ Len(cli_delivered) <= Len(BeforeBlank(cli_stream))
    /\ cli_delivered = SubSeq(BeforeBlank(cli_stream), 1, Len(cli_delivered))
    /\ cli_exit = "Ok" => cli_delivered = BeforeBlank(cli_stream)

(* the stream ended at a whitespace-only line after a delivered line,      *)
(* with a non-empty line behind it                                         *)
C25_Witness ==
    /\ cli_exit = "Ok"
    /\ Len(cli_delivered) >= 1
    /\ cli_cursor < Len(cli_stream)
    /\ cli_stream[cli_cursor].pad /\ cli_stream[cli_cursor].body = NoLine
    /\ cli_stream[cli_cursor + 1].body # NoLine

-----------------------------------------------------------------------------
(* SpecEq: equality of arguments and attacks, and Extension::contains      *)

(* af-generator types: Argument::new, Attack::from_raw *)
Argument_new(id, optional) == [id |-> id, optional |-> optional]
Attack_from_raw(from, to, optional) == [from |-> from, to |-> to, optional |-> optional]

EqArguments == {Argument_new(i, o) : i \in GenIds, o \in BOOLEAN}
EqAttacks == {Attack_from_raw(f, t, o) : f \in GenIds, t \in GenIds, o \in BOOLEAN}

Argument_eq_derived(a, b) == a = b

(* impl PartialEq for Argument *)
Argument_eq(a, b) == a.id = b.id

(* impl PartialEq for Attack *)
Attack_eq(a, b) == a.from = b.from /\ a.to = b.to

(* the library's symbols::Argument { id, optional } *)
symbols_Argument(id, optional) == [id |-> id, optional |-> optional]

(* the arguments Extension::from_model builds: optional is always false *)
ModelAtoms == {symbols_Argument(i, FALSE) : i \in QueryIds}

(* Ord of symbols::Argument, as BTreeSet::contains uses it: by id only *)
same_id(x, y) == x.id = y.id

(* Extension::contains: self.atoms.contains(arg) *)
Extension_contains(atoms, arg) == \E x \in atoms : same_id(x, arg)

EqRes(op, val) == [eq EXCEPT !.op = op, !.val = val]

InitEq ==
    /\ \/ \E x \in EqArguments, y \in EqArguments :
            eq = [NoEq EXCEPT !.of = "Argument", !.a = x, !.b = y]
       \/ \E x \in EqAttacks, y \in EqAttacks :
            eq = [NoEq EXCEPT !.of = "Attack", !.a = x, !.b = y]
       \/ \E atoms \in SUBSET ModelAtoms, i \in QueryIds, o \in BOOLEAN :
            eq = [NoEq EXCEPT !.of = "Extension", !.atoms = atoms, !.a = symbols_Argument(i, o),
                              !.b = symbols_Argument(i, ~o)]
    /\ tgf = NoTgf
    /\ LibIdle /\ LoadIdle /\ StoreIdle /\ GenIdle /\ RevIdle /\ SemIdle /\ CliIdle

ArgumentEq ==
    /\ eq.op = "none" /\ eq.of = "Argument"
    /\ eq' = EqRes("Argument::eq", Argument_eq(eq.a, eq.b))
    /\ UNCHANGED <<lib_vars, load_vars, store_vars, gen_vars, rev_vars, sem_vars, cli_vars, tgf>>

AttackEq ==
    /\ eq.op = "none" /\ eq.of = "Attack"
    /\ eq' = EqRes("Attack::eq", Attack_eq(eq.a, eq.b))
    /\ UNCHANGED <<lib_vars, load_vars, store_vars, gen_vars, rev_vars, sem_vars, cli_vars, tgf>>

ExtensionContains ==
    /\ eq.op = "none" /\ eq.of = "Extension"
    /\ eq' = EqRes("Extension::contains", Extension_contains(eq.atoms, eq.a))
    /\ UNCHANGED <<lib_vars, load_vars, store_vars, gen_vars, rev_vars, sem_vars, cli_vars, tgf>>

NextEq == ArgumentEq \/ AttackEq \/ ExtensionContains

SpecEq == InitEq /\ [][NextEq]_vars

-----------------------------------------------------------------------------
(* The generator's initial file read back by the library                   *)

(* Argument::name: ARGUMENT_PREFIX followed by the id *)
name(id) == <<"a", id>>

(* the lines of one element: `arg(..).`, and `opt(arg(..)).` after it when *)
(* the full view is written and the element is optional                    *)
written_lines(sym, optional, alive_only) ==
    IF ~alive_only /\ optional
    THEN <<[stmt |-> sym.kind, sym |-> sym], [stmt |-> "opt", sym |-> sym]>>
    ELSE <<[stmt |-> sym.kind, sym |-> sym]>>

RECURSIVE write_each(_, _, _, _)
write_each(order, entries, to_sym, alive_only) ==
    IF order = <<>> THEN <<>>
    ELSE LET e == entries[Head(order)]
             rest == write_each(Tail(order), entries, to_sym, alive_only)
         IN  IF alive_only /\ e.state # "Alive" THEN rest
             ELSE written_lines(to_sym[Head(order)], e.optional, alive_only) \o rest

(* AF::write_framework_to_file, Format::Apx: the arguments, then the attacks *)
write_framework_to_file(a, t, alive_only) ==
    LET arg_sym == [id \in DOMAIN a |-> Argument(name(id))]
        att_sym == [p \in DOMAIN t |-> Attack(name(p[1]), name(p[2]))]
    IN  write_each(Listing(DOMAIN a), a, arg_sym, alive_only)
        \o write_each(Listing(DOMAIN t), t, att_sym, alive_only)

(* C34: at any revision, the full view written in the explicit format,     *)
(* parsed and loaded again gives every argument and attack the status it   *)
(* had in the framework that was written.                                  *)
C34_FullViewRoundTrip ==
    LET again == new(write_framework_to_file(gen_args, gen_atts, FALSE))
    IN  /\ again.ok
        /\ \A id \in DOMAIN gen_args :
              gen_args[id].state = "Alive" <=> Argument(name(id)) \in Alive(again.ctl)
        /\ \A p \in DOMAIN gen_atts :
              gen_atts[p].state = "Alive"
              <=> Attack(name(p[1]), name(p[2])) \in Alive(again.ctl)

-----------------------------------------------------------------------------
(* SpecTgf: the terse parser, token by token.  parse_apx_tgf hands it the  *)
(* text the explicit parser rejected.                                      *)

(* tgf::Token; "Error" is any character outside both grammars *)
TgfTokens == {"Text", "Hash", "Optional", "Whitespace", "Error"}

(* apx::parse_file skips blanks and accepts a text with nothing else *)
apx_accepts(input) == \A i \in DOMAIN input : input[i] = "Whitespace"

(* lex.next(): the next token, or None at the end of the input, each time  *)
(* it is asked                                                             *)
lex_next(input, pos) == IF pos < Len(input) THEN input[pos + 1] ELSE "None"

(* lex.remainder().starts_with('?') *)
starts_with_optional(input, pos) == lex_next(input, pos) = "Optional"

(* the position after the `?` that follows an id, when there is one *)
after_optional(input, pos) == IF starts_with_optional(input, pos) THEN pos + 1 ELSE pos

(* one turn of the loop of parse_arguments *)
parse_arguments_turn(t) ==
    LET tok == lex_next(t.input, t.pos)
    IN  CASE tok = "Text" ->
               [t EXCEPT !.pos = after_optional(t.input, t.pos + 1), !.args = @ + 1]
          [] tok = "Hash" -> [t EXCEPT !.pos = @ + 1, !.at = "parse_attacks"]
          [] tok = "None" -> t
          [] OTHER -> [t EXCEPT !.pos = @ + 1, !.at = "Err"]

(* expect(lex, expected) at position pos *)
expect(input, pos, expected) == lex_next(input, pos) = expected

(* one turn of the loop of parse_attacks *)
parse_attacks_turn(t) ==
    LET tok == lex_next(t.input, t.pos)
    IN  CASE tok = "None" -> [t EXCEPT !.at = "Ok"]
          [] tok = "Text" ->
               IF ~expect(t.input, t.pos + 1, "Whitespace")
               THEN [t EXCEPT !.pos = Len(t.input), !.at = "Err"]
               ELSE IF ~expect(t.input, t.pos + 2, "Text")
               THEN [t EXCEPT !.pos = Len(t.input), !.at = "Err"]
               ELSE [t EXCEPT !.pos = after_optional(t.input, t.pos + 3),
                              !.attacks = @ + 1]
          [] OTHER -> [t EXCEPT !.pos = @ + 1, !.at = "Err"]

InitTgf ==
    /\ \E input \in SeqsUpTo(TgfTokens, MaxTokens) :
          /\ ~apx_accepts(input)
          /\ tgf = [NoTgf EXCEPT !.input = input, !.at = "parse_arguments"]
    /\ eq = NoEq
    /\ LibIdle /\ LoadIdle /\ StoreIdle /\ GenIdle /\ RevIdle /\ SemIdle /\ CliIdle

ParseArgumentsTurn ==
    /\ tgf.at = "parse_arguments" /\ tgf.turns < MaxTurns
    /\ tgf' = [parse_arguments_turn(tgf) EXCEPT !.turns = @ + 1]
    /\ UNCHANGED <<lib_vars, load_vars, store_vars, gen_vars, rev_vars, sem_vars, cli_vars, eq>>

ParseAttacksTurn ==
    /\ tgf.at = "parse_attacks" /\ tgf.turns < MaxTurns
    /\ tgf' = [parse_attacks_turn(tgf) EXCEPT !.turns = @ + 1]
    /\ UNCHANGED <<lib_vars, load_vars, store_vars, gen_vars, rev_vars, sem_vars, cli_vars, eq>>

NextTgf == ParseArgumentsTurn \/ ParseAttacksTurn

SpecTgf == InitTgf /\ [][NextTgf]_vars

(* C38: parsing ends on every finite input with a framework or an error,   *)
(* also on terse input that ends without a `#` line: every turn of a       *)
(* parser loop consumes input or returns, so a text of n tokens is parsed  *)
(* in at most n + 1 turns.                                                 *)
C38_ParsingTerminates ==
    /\ tgf.turns <= Len(tgf.input) + 1
    /\ tgf.turns = Len(tgf.input) + 1 => tgf.at \in {"Ok", "Err"}

====
